---- MODULE Spec2Model ----
(***************************************************************************)
(* Graph layout and viewport rendering of Aether Analytica.                *)
(*                                                                         *)
(* Two React components draw the knowledge graph of an analysis:           *)
(*   KnowledgeGraphViz  (components/AnalysisDashboard, "compact" mode)     *)
(*   FullScreenGraph    (components/HistoryView, "full" mode, pan/zoom)    *)
(*                                                                         *)
(* Conventions of the model                                                *)
(*  - a node object is identified by its index in the nodes array; tiers   *)
(*    are sequences of such indices, in the order Array.filter keeps.      *)
(*  - an angle  a + q*pi  is the record [rad |-> 10*a, pi |-> q] with q a   *)
(*    reduced fraction <<num, den>>; the arithmetic is exact.              *)
(*  - a position is [x0, y0, rx, ry, angle], standing for the point        *)
(*    (x0 + rx*cos(angle), y0 + ry*sin(angle)); the literal {x: cx, y: cy} *)
(*    has rx = ry = 0.                                                     *)
(*  - scale is counted in thousandths (1000 is scale 1), opacity in        *)
(*    hundredths (100 is opacity 1).                                       *)
(*  - the handlers of a component are closures of its last render: a       *)
(*    handler that reads a state variable directly reads the value of that *)
(*    render (variable rendered), a functional update reads the current    *)
(*    value.  React renders before the next event after a discrete event   *)
(*    (mousedown, mouseup, click); after a continuous one (wheel,          *)
(*    mousemove, mouseenter, mouseleave) the render may come later.        *)
(***************************************************************************)
EXTENDS Integers, Sequences, FiniteSets, TLC

\* ------------------------------------------------------------------ bounds
MaxNodes == 3
MaxEdges == 2
MaxPending == 2
MaxCoord == 1
MaxOffset == 2
MaxRuns == 3

\* --------------------------------------------------------- program constants
CompactWidth == 400
CompactHeight == 300
FullWidth == 800
FullHeight == 600
CompactEntityRadius == 40
CompactActionRadius == 90
CompactResultRadius == 130
FullEntityRadiusX == 100
FullEntityRadiusY == 80
FullActionRadiusX == 220
FullActionRadiusY == 160
FullResultRadiusX == 320
FullResultRadiusY == 240
ActionStartAngle == 5
ResultStartAngle == 10
MinScale == 200
MaxScale == 4000
InitialScale == 1000
ZoomStep == 200
WheelSensitivity == 1

\* ------------------------------------------------------------- value spaces
Null == "<null>"
KnownTypes == {"entity", "action", "risk", "outcome"}
NodeTypes == KnownTypes \cup {"concept"}
NodeIds == {"a", "b", "c"}
NodeLabels == {"L"}
GraphNode == [id : NodeIds, label : NodeLabels, type : NodeTypes]

\* ------------------------------------------------------------ exact angles
RECURSIVE GCD(_, _)
GCD(a, b) ==
  IF b = 0 THEN a ELSE GCD(b, a % b)

Abs(n) ==
  IF n < 0 THEN -n ELSE n

\* the fraction num/den in lowest terms, den > 0
Rat(num, den) ==
  LET g == GCD(Abs(num), Abs(den))
      s == IF den < 0 THEN -1 ELSE 1
  IN  <<(s * num) \div g, (s * den) \div g>>

RatSub(p, q) ==
  Rat(p[1] * q[2] - q[1] * p[2], p[2] * q[2])

RatScale(k, p) ==
  Rat(k * p[1], p[2])

ZeroAngle == [rad |-> 0, pi |-> <<0, 1>>]

\* mutant of Step: the circle is divided into one slot too many
StepOverNextCount(count) ==
  Rat(2, count + 1)

\* step = (2 * Math.PI) / count, as a multiple of pi
Step(count) ==
  Rat(2, count)

\* mutant of SlotAngle: the start angle of the tier is dropped
SlotAngleNoPhase(startAngle, i, count) ==
  [rad |-> 0, pi |-> RatSub(RatScale(i, Step(count)), Rat(1, 2))]

\* angle = startAngle + i * step - Math.PI / 2
SlotAngle(startAngle, i, count) ==
  [rad |-> startAngle, pi |-> RatSub(RatScale(i, Step(count)), Rat(1, 2))]

\* ----------------------------------------------------------------- layout
cx(mode) ==
  IF mode = "compact" THEN CompactWidth \div 2 ELSE FullWidth \div 2

cy(mode) ==
  IF mode = "compact" THEN CompactHeight \div 2 ELSE FullHeight \div 2

Center(mode) ==
  [x0 |-> cx(mode), y0 |-> cy(mode), rx |-> 0, ry |-> 0, angle |-> ZeroAngle]

\* nodes.filter(n => types.includes(n.type)), as the indices kept, in order
FilterIn(nodes, types) ==
  SelectSeq([i \in 1..Len(nodes) |-> i], LAMBDA i : nodes[i].type \in types)

\* nodes.filter(n => !types.includes(n.type))
FilterNotIn(nodes, types) ==
  SelectSeq([i \in 1..Len(nodes) |-> i], LAMBDA i : nodes[i].type \notin types)

entities(nodes) ==
  FilterIn(nodes, {"entity"})

actions(nodes) ==
  FilterIn(nodes, {"action"})

risks(nodes) ==
  FilterIn(nodes, {"risk"})

outcomes(nodes) ==
  FilterIn(nodes, {"outcome"})

results(nodes) ==
  FilterIn(nodes, {"risk", "outcome"})

\* mutant of others: 'outcome' is missing from the list of known types
othersKeepOutcome(nodes) ==
  FilterNotIn(nodes, {"entity", "action", "risk"})

others(nodes) ==
  FilterNotIn(nodes, {"entity", "action", "risk", "outcome"})

\* mutant of Tier2: the nodes of unknown type are left out
Tier2WithoutOthers(mode, nodes) ==
  IF mode = "compact"
  THEN risks(nodes) \o outcomes(nodes)
  ELSE results(nodes)

\* the list handed to the third distribute call
Tier2(mode, nodes) ==
  IF mode = "compact"
  THEN risks(nodes) \o outcomes(nodes) \o others(nodes)
  ELSE results(nodes) \o others(nodes)

\* mutant of distribute: the index is taken modulo two, so the third member
\* of a tier lands on the slot of the first
distributeIndexModTwo(mode, nodes, list, tier, radiusX, radiusY, startAngle) ==
  LET count == Len(list)
  IN  IF count = 0 THEN <<>>
      ELSE [k \in 1..count |->
             [node |-> list[k], id |-> nodes[list[k]].id, tier |-> tier,
              i |-> (k - 1) % 2, count |-> count,
              pos |-> [x0 |-> cx(mode), y0 |-> cy(mode),
                       rx |-> radiusX, ry |-> radiusY,
                       angle |-> SlotAngle(startAngle, (k - 1) % 2, count)]]]

\* distribute(list, radiusX, radiusY, startAngle): the posMap.set calls it
\* makes, in order; none when the list is empty
distribute(mode, nodes, list, tier, radiusX, radiusY, startAngle) ==
  LET count == Len(list)
  IN  IF count = 0 THEN <<>>
      ELSE [k \in 1..count |->
             [node |-> list[k], id |-> nodes[list[k]].id, tier |-> tier,
              i |-> k - 1, count |-> count,
              pos |-> [x0 |-> cx(mode), y0 |-> cy(mode),
                       rx |-> radiusX, ry |-> radiusY,
                       angle |-> SlotAngle(startAngle, k - 1, count)]]]

\* mutant of PlaceEntities: no special case for a single entity
PlaceEntitiesAlwaysRing(mode, nodes) ==
  IF mode = "compact"
  THEN distribute(mode, nodes, entities(nodes), 0,
                  CompactEntityRadius, CompactEntityRadius, 0)
  ELSE distribute(mode, nodes, entities(nodes), 0,
                  FullEntityRadiusX, FullEntityRadiusY, 0)

\* Layer 1: a single entity is set at the centre, otherwise a small ring
PlaceEntities(mode, nodes) ==
  LET list == entities(nodes)
  IN  IF Len(list) = 1
      THEN << [node |-> list[1], id |-> nodes[list[1]].id, tier |-> 0,
               i |-> 0, count |-> 1, pos |-> Center(mode)] >>
      ELSE IF mode = "compact"
           THEN distribute(mode, nodes, list, 0,
                           CompactEntityRadius, CompactEntityRadius, 0)
           ELSE distribute(mode, nodes, list, 0,
                           FullEntityRadiusX, FullEntityRadiusY, 0)

PlaceActions(mode, nodes) ==
  IF mode = "compact"
  THEN distribute(mode, nodes, actions(nodes), 1,
                  CompactActionRadius, CompactActionRadius, ActionStartAngle)
  ELSE distribute(mode, nodes, actions(nodes), 1,
                  FullActionRadiusX, FullActionRadiusY, ActionStartAngle)

PlaceResults(mode, nodes) ==
  IF mode = "compact"
  THEN distribute(mode, nodes, Tier2(mode, nodes), 2,
                  CompactResultRadius, CompactResultRadius, ResultStartAngle)
  ELSE distribute(mode, nodes, Tier2(mode, nodes), 2,
                  FullResultRadiusX, FullResultRadiusY, ResultStartAngle)

\* every posMap.set call of one layout run, in program order
PosWrites(mode, nodes) ==
  PlaceEntities(mode, nodes) \o PlaceActions(mode, nodes) \o PlaceResults(mode, nodes)

\* mutant of PosMapGet: a later set of the same key is dropped
PosMapGetFirst(writes, id) ==
  LET hits == {k \in 1..Len(writes) : writes[k].id = id}
  IN  IF hits = {} THEN <<>>
      ELSE << writes[CHOOSE k \in hits : \A j \in hits : k <= j].pos >>

\* posMap.get(id) after the writes: <<the last value set>>, or <<>> for
\* undefined when the id was never set
PosMapGet(writes, id) ==
  LET hits == {k \in 1..Len(writes) : writes[k].id = id}
  IN  IF hits = {} THEN <<>>
      ELSE << writes[CHOOSE k \in hits : \A j \in hits : j <= k].pos >>

\* nodes.map(n => ({...n, ...(posMap.get(n.id) || {x: cx, y: cy})}))
NodePositions(mode, nodes) ==
  LET writes == PosWrites(mode, nodes)
  IN  [k \in 1..Len(nodes) |->
        [id |-> nodes[k].id, label |-> nodes[k].label, type |-> nodes[k].type,
         pos |-> IF PosMapGet(writes, nodes[k].id) = <<>>
                 THEN Center(mode)
                 ELSE PosMapGet(writes, nodes[k].id)[1]]]

\* -------------------------------------------------------------- rendering
\* a string | null state value used as a condition: null and "" are falsy
Truthy(h) ==
  h # Null /\ h # ""

\* nodePositions.find(n => n.id === id): the index of the first match, 0 for
\* undefined
Find(np, id) ==
  LET hits == {k \in 1..Len(np) : np[k].id = id}
  IN  IF hits = {} THEN 0 ELSE CHOOSE k \in hits : \A j \in hits : k <= j

\* mutant of getNodeColor: no default branch, an unknown type falls into the
\* first case
getNodeColorNoDefault(mode, type) ==
  CASE type = "outcome" -> "#f59e0b"
    [] type = "action" -> "#10b981"
    [] type = "entity" -> "#06b6d4"
    [] OTHER -> "#ef4444"

getNodeColor(mode, type) ==
  CASE type = "risk" -> "#ef4444"
    [] type = "outcome" -> "#f59e0b"
    [] type = "action" -> "#10b981"
    [] type = "entity" -> "#06b6d4"
    [] OTHER -> IF mode = "compact" THEN "#94a3b8" ELSE "#64748b"

isConnectedToHover(edge, hovered) ==
  Truthy(hovered) /\ (edge.from = hovered \/ edge.to = hovered)

\* mutant of EdgeSkipped: only the start of the edge is looked at
EdgeSkippedStartOnly(start, end) ==
  start = 0

\* if (!start || !end) return null
EdgeSkipped(start, end) ==
  start = 0 \/ end = 0

\* one element of edges.map(...): <<>> for null, else the <g> drawn; threw
\* records a read of .x / .y through an undefined start or end
RenderEdge(mode, np, edge, hovered, scale) ==
  LET start == Find(np, edge.from)
      end == Find(np, edge.to)
      conn == isConnectedToHover(edge, hovered)
  IN  IF EdgeSkipped(start, end) THEN <<>>
      ELSE << [from |-> edge.from, to |-> edge.to,
               start |-> start, end |-> end,
               threw |-> (start = 0 \/ end = 0),
               connected |-> conn,
               opacity |-> IF Truthy(hovered) /\ ~conn THEN 10 ELSE 100,
               label |-> IF mode = "full"
                            /\ (~Truthy(hovered) \/ conn) /\ scale > 600
                         THEN <<edge.label>> ELSE <<>>] >>

\* const isDimmed = hoveredNodeId && hoveredNodeId !== node.id
isDimmed(node, hovered) ==
  Truthy(hovered) /\ hovered # node.id

RenderNode(mode, node, hovered, scale) ==
  [id |-> node.id, pos |-> node.pos,
   isHovered |-> (hovered = node.id),
   opacity |-> IF isDimmed(node, hovered)
               THEN (IF mode = "compact" THEN 20 ELSE 30) ELSE 100,
   stroke |-> getNodeColor(mode, node.type),
   label |-> IF mode = "full" /\ scale > 400 THEN <<node.label>> ELSE <<>>]

\* the label text of the tooltip: the compact view cuts a label of more than
\* fifteen characters to its first fourteen and appends two dots
TooltipLabel(mode, label) ==
  IF mode = "compact" /\ Len(label) > 15
  THEN SubSeq(label, 1, 14) \o ".."
  ELSE label

\* the <g> of the tooltip for the node at index activeNode: the compact one
\* is translated to (node.x, node.y - 20) and holds a 100 x 30 box and the
\* label; the full-screen one is at translate(20, 20) outside the group that
\* carries the camera transform and holds a 220 x 90 box, the label and the
\* type
TooltipOf(mode, np, activeNode) ==
  [label |-> TooltipLabel(mode, np[activeNode].label),
   type |-> IF mode = "compact" THEN <<>> ELSE <<np[activeNode].type>>,
   stroke |-> getNodeColor(mode, np[activeNode].type),
   anchor |-> IF mode = "compact" THEN <<np[activeNode].pos>> ELSE <<>>,
   x |-> IF mode = "compact" THEN 0 ELSE 20,
   y |-> IF mode = "compact" THEN -20 ELSE 20,
   width |-> IF mode = "compact" THEN 100 ELSE 220,
   height |-> IF mode = "compact" THEN 30 ELSE 90]

\* mutant of RenderTooltip: the tooltip is drawn under hoveredNodeId && ...
RenderTooltipTruthy(mode, np, hovered) ==
  LET activeNode == Find(np, hovered)
  IN  IF activeNode = 0 \/ ~Truthy(hovered) THEN <<>>
      ELSE << TooltipOf(mode, np, activeNode) >>

\* const activeNode = nodePositions.find(n => n.id === hoveredNodeId); the
\* tooltip is drawn when it is defined
RenderTooltip(mode, np, hovered) ==
  LET activeNode == Find(np, hovered)
  IN  IF activeNode = 0 THEN <<>>
      ELSE << TooltipOf(mode, np, activeNode) >>

\* the element tree one render returns
Render(mode, np, es, hovered, vs) ==
  [edges |-> [e \in 1..Len(es) |-> RenderEdge(mode, np, es[e], hovered, vs.scale)],
   nodes |-> [k \in 1..Len(np) |-> RenderNode(mode, np[k], hovered, vs.scale)],
   tooltip |-> RenderTooltip(mode, np, hovered),
   transform |-> IF mode = "full" THEN <<vs>> ELSE <<>>]

\* ------------------------------------------------------------------ state
VARIABLES
  mode,           \* "unmounted", "compact" (KnowledgeGraphViz), "full" (FullScreenGraph)
  nodes,          \* prop nodes
  edges,          \* prop edges
  nodePositions,  \* the useMemo value, keyed on nodes
  posLog,         \* the posMap.set calls of the layout run that built it
  hoveredNodeId,  \* useState<string | null>(null)
  viewState,      \* useState({ x: 0, y: 0, scale: 1 }), float the double of scale
  isDragging,     \* useState(false)
  lastMousePos,   \* useRef({ x: 0, y: 0 })
  rendered,       \* viewState.scale and isDragging as the last render saw them
  pending,        \* handler runs whose state updates no render has shown yet
  nodesRef,       \* identity of the array object in prop nodes
  layoutRuns,     \* runs of the useMemo callback so far
  supplied,       \* history: the nodes and edges as the caller handed them over
  dragStart,      \* history of the current drag, kept when dragStart.on
  lastHover,      \* history: the last node enter / leave event, kept when lastHover.on
  lastEvent       \* history: the last handler run, kept when lastEvent.on

vars ==
  <<mode, nodes, edges, nodePositions, posLog, hoveredNodeId, viewState,
    isDragging, lastMousePos, rendered, pending, nodesRef, layoutRuns,
    supplied, dragStart, lastHover, lastEvent>>

\* what belongs to the caller and to the memo; no handler writes it
caller ==
  <<nodesRef, layoutRuns, supplied>>

\* ---- the scale as the JavaScript number it is: an IEEE-754 double. Every
\* scale the handlers produce is a multiple of 2^-55 below 16, so a double is
\* held as that multiple, in two limbs <<high, low>> of 29 bits each: the
\* value is (high * 2^29 + low) * 2^-55
Limb == 536870912

\* the doubles of the literals 1, 0.2 and 4
FloatOne == <<67108864, 0>>
FloatPointTwo == <<13421772, 429496730>>
FloatFour == <<268435456, 0>>

\* the double of |e.deltaY| * 0.001 for the wheel steps of the model
\* (100 * 0.001 is the double 0.1, 5000 * 0.001 is 5)
WheelDeltaFloat(magnitude) ==
  CASE magnitude = 100 -> <<6710886, 214748365>>
    [] magnitude = 5000 -> <<335544320, 0>>

FloatLeq(a, b) ==
  a[1] < b[1] \/ (a[1] = b[1] /\ a[2] <= b[2])

FloatMin(a, b) ==
  IF FloatLeq(a, b) THEN a ELSE b

FloatMax(a, b) ==
  IF FloatLeq(a, b) THEN b ELSE a

\* the number of bits by which high * 2^29 + low exceeds the 53 bits of a
\* double's significand
RECURSIVE ExcessBits(_)
ExcessBits(high) ==
  IF high < 16777216 THEN 0 ELSE 1 + ExcessBits(high \div 2)

\* round to nearest, ties to even: the low bits that do not fit are dropped
\* and the last kept bit is raised when they are more than half of it, or
\* half of it while the kept bit is odd
FloatRound(n) ==
  LET q == 2 ^ ExcessBits(n[1])
      rem == n[2] % q
      up == q > 1 /\ \/ 2 * rem > q
                     \/ (2 * rem = q /\ (n[2] \div q) % 2 = 1)
      low == n[2] - rem + (IF up THEN q ELSE 0)
  IN  IF low = Limb THEN <<n[1] + 1, 0>> ELSE <<n[1], low>>

\* a + b of two doubles
FloatAdd(a, b) ==
  FloatRound(<<a[1] + b[1] + ((a[2] + b[2]) \div Limb), (a[2] + b[2]) % Limb>>)

\* a - b of two doubles, b <= a
FloatSub(a, b) ==
  FloatRound(IF a[2] >= b[2]
             THEN <<a[1] - b[1], a[2] - b[2]>>
             ELSE <<a[1] - b[1] - 1, a[2] + Limb - b[2]>>)

\* Math.min(Math.max(0.2, scale + delta), 4) with delta = -deltaY * 0.001; a
\* negative sum is below 0.2. <<>> stands for a double that is not tracked
WheelFloat(renderedFloat, deltaY) ==
  IF renderedFloat = <<>> THEN <<>>
  ELSE LET d == WheelDeltaFloat(Abs(deltaY))
       IN  IF deltaY < 0
           THEN FloatMin(FloatMax(FloatPointTwo, FloatAdd(renderedFloat, d)),
                         FloatFour)
           ELSE IF FloatLeq(d, renderedFloat)
                THEN FloatMin(FloatMax(FloatPointTwo,
                                       FloatSub(renderedFloat, d)),
                              FloatFour)
                ELSE FloatPointTwo

\* Math.min(prev.scale + 0.2, 4)
ZoomInFloat(prevFloat) ==
  IF prevFloat = <<>> THEN <<>>
  ELSE FloatMin(FloatAdd(prevFloat, FloatPointTwo), FloatFour)

\* Math.max(prev.scale - 0.2, 0.2)
ZoomOutFloat(prevFloat) ==
  IF prevFloat = <<>> THEN <<>>
  ELSE IF FloatLeq(FloatPointTwo, prevFloat)
       THEN FloatMax(FloatSub(prevFloat, FloatPointTwo), FloatPointTwo)
       ELSE FloatPointTwo

Min(a, b) ==
  IF a < b THEN a ELSE b

Max(a, b) ==
  IF a > b THEN a ELSE b

Closure(vs, drag) ==
  [scale |-> vs.scale, float |-> vs.float, isDragging |-> drag]

\* scale is the decimal value in thousandths; float is the double that holds
\* it, <<>> where the model does not track it
InitialViewState ==
  [x |-> 0, y |-> 0, scale |-> InitialScale, float |-> <<>>]

InitialViewStateOf(history) ==
  IF "float" \in history
  THEN [InitialViewState EXCEPT !.float = FloatOne]
  ELSE InitialViewState

Origin ==
  [x |-> 0, y |-> 0]

NoDrag(on) ==
  [on |-> on, clean |-> FALSE, pos |-> Origin, x |-> 0, y |-> 0, moves |-> 0]

NoHover(on) ==
  [on |-> on, op |-> "none", id |-> Null, before |-> Null]

\* the record of a node enter / leave event of node id
LogHover(op, id) ==
  IF lastHover.on
  THEN [on |-> TRUE, op |-> op, id |-> id, before |-> hoveredNodeId]
  ELSE lastHover

NoEvent(on) ==
  [on |-> on, op |-> "none", deltaY |-> 0, tick |-> 0, repeat |-> FALSE]

\* the record of a handler run; tick alternates from one run to the next,
\* repeat tells that the run before was of the same handler with the same
\* input (samePos: the event position is that of the event before)
LogEvent(op, deltaY, samePos) ==
  IF lastEvent.on
  THEN [on |-> TRUE, op |-> op, deltaY |-> deltaY, tick |-> 1 - lastEvent.tick,
        repeat |-> (lastEvent.op = op /\ lastEvent.deltaY = deltaY /\ samePos)]
  ELSE lastEvent

\* the element tree a render of the current state returns
scene ==
  Render(mode, nodePositions, edges, hoveredNodeId, viewState)

\* inputs of the model
Coords == 0..MaxCoord
Points == [x : Coords, y : Coords]
DeltaYs == {-5000, -100, 100, 5000}
EdgeEnds == {"a", "b", "zzz"}
EdgeLabels == {"leads to"}
GraphEdge == [from : EdgeEnds, to : EdgeEnds, label : EdgeLabels]

SeqsUpTo(S, n) ==
  UNION {[1..k -> S] : k \in 0..n}

Node(id, type) ==
  [id |-> id, label |-> "L", type |-> type]

\* a label of more than fifteen characters
LongLabel ==
  "Supply chain disruption"

Labelled(id, label, type) ==
  [id |-> id, label |-> label, type |-> type]

Edge(from, to) ==
  [from |-> from, to |-> to, label |-> "leads to"]

ScenarioNodes ==
  << Node("a", "entity"), Node("b", "action"), Node("c", "risk") >>

NodeCatalog ==
  { <<>>,
    ScenarioNodes,
    << Node("", "entity"), Node("a", "action") >>,
    << Node("a", "entity"), Node("a", "risk"), Node("b", "outcome") >>,
    << Node("b", "action"), Labelled("c", LongLabel, "action") >> }

\* the graphs a caller hands over; ref names the nodes array object: ref 1
\* is handed over with two edge lists, ref 2 is another array of equal content
GraphCatalog ==
  { [ref |-> 1, nodes |-> ScenarioNodes,
     edges |-> << Edge("a", "b"), Edge("b", "c") >>],
    [ref |-> 1, nodes |-> ScenarioNodes, edges |-> << Edge("a", "zzz") >>],
    [ref |-> 2, nodes |-> ScenarioNodes,
     edges |-> << Edge("a", "b"), Edge("b", "c") >>],
    [ref |-> 3, nodes |-> << Node("b", "action"), Node("", "concept") >>,
     edges |-> << Edge("b", ""), Edge("c", "b") >>] }

\* ----------------------------------------------------------- construction
Unmounted(ns, es, history) ==
  /\ mode = "unmounted"
  /\ nodes = ns
  /\ edges = es
  /\ nodePositions = <<>>
  /\ posLog = <<>>
  /\ hoveredNodeId = Null
  /\ viewState = InitialViewStateOf(history)
  /\ isDragging = FALSE
  /\ lastMousePos = Origin
  /\ rendered = Closure(InitialViewStateOf(history), FALSE)
  /\ pending = 0
  /\ nodesRef = 0
  /\ layoutRuns = 0
  /\ supplied = [nodes |-> ns, edges |-> es]
  /\ dragStart = NoDrag("drag" \in history)
  /\ lastHover = NoHover("hover" \in history)
  /\ lastEvent = NoEvent("event" \in history)

\* mutant of Mount: the layout reverses the nodes array in place
MountReversesNodes(m) ==
  /\ mode = "unmounted"
  /\ mode' = m
  /\ nodes' = [k \in 1..Len(nodes) |-> nodes[Len(nodes) + 1 - k]]
  /\ nodePositions' = NodePositions(m, nodes')
  /\ posLog' = PosWrites(m, nodes')
  /\ layoutRuns' = layoutRuns + 1
  /\ UNCHANGED <<edges, hoveredNodeId, viewState, isDragging,
                 lastMousePos, rendered, pending, nodesRef, supplied,
                 dragStart, lastHover, lastEvent>>

\* first render of a component with the props the caller holds
Mount(m) ==
  /\ mode = "unmounted"
  /\ mode' = m
  /\ nodePositions' = NodePositions(m, nodes)
  /\ posLog' = PosWrites(m, nodes)
  /\ layoutRuns' = layoutRuns + 1
  /\ UNCHANGED <<nodes, edges, hoveredNodeId, viewState, isDragging,
                 lastMousePos, rendered, pending, nodesRef, supplied,
                 dragStart, lastHover, lastEvent>>

MountCompact ==
  Mount("compact")

MountFull ==
  Mount("full")

\* React re-renders the component: the new closures see the current state
\* mutant of Rerender: the render clears the hover
RerenderClearsHover ==
  /\ mode # "unmounted"
  /\ pending > 0
  /\ rendered' = Closure(viewState, isDragging)
  /\ pending' = 0
  /\ hoveredNodeId' = Null
  /\ UNCHANGED <<mode, nodes, edges, nodePositions, posLog,
                 viewState, isDragging, lastMousePos, dragStart, lastHover,
                 lastEvent>>
  /\ UNCHANGED caller

Rerender ==
  /\ mode # "unmounted"
  /\ pending > 0
  /\ rendered' = Closure(viewState, isDragging)
  /\ pending' = 0
  /\ UNCHANGED <<mode, nodes, edges, nodePositions, posLog, hoveredNodeId,
                 viewState, isDragging, lastMousePos, dragStart, lastHover,
                 lastEvent>>
  /\ UNCHANGED caller

\* mutant of DepsChanged: the dependency is compared by content
DepsChangedDeepEqual(prevRef, prevNodes, nextRef, nextNodes) ==
  prevNodes # nextNodes

\* useMemo(..., [nodes]): the dependency changed when the new array is not
\* the same object as the previous one
DepsChanged(prevRef, prevNodes, nextRef, nextNodes) ==
  prevRef # nextRef

\* the caller renders the component with other props (App.handleAnalyze
\* sets activeHistoryItem while GraphView stays mounted); component state is
\* kept, the memo callback runs again when its dependency changed
NewGraph(g) ==
  /\ mode # "unmounted"
  /\ DepsChanged(nodesRef, nodes, g.ref, g.nodes) => layoutRuns < MaxRuns
  /\ nodes' = g.nodes
  /\ edges' = g.edges
  /\ nodesRef' = g.ref
  /\ supplied' = [nodes |-> g.nodes, edges |-> g.edges]
  /\ IF DepsChanged(nodesRef, nodes, g.ref, g.nodes)
     THEN /\ nodePositions' = NodePositions(mode, g.nodes)
          /\ posLog' = PosWrites(mode, g.nodes)
          /\ layoutRuns' = layoutRuns + 1
     ELSE UNCHANGED <<nodePositions, posLog, layoutRuns>>
  /\ rendered' = Closure(viewState, isDragging)
  /\ pending' = 0
  /\ UNCHANGED <<mode, hoveredNodeId, viewState, isDragging, lastMousePos,
                 dragStart, lastHover, lastEvent>>

\* ------------------------------------------------------------------ hover
\* mutant of NodeEnter: entering a node also ends the drag
NodeEnterStopsDrag(k) ==
  /\ mode # "unmounted"
  /\ k \in 1..Len(nodePositions)
  /\ pending < MaxPending
  /\ hoveredNodeId' = nodePositions[k].id
  /\ isDragging' = FALSE
  /\ pending' = pending + 1
  /\ lastHover' = LogHover("enter", nodePositions[k].id)
  /\ lastEvent' = LogEvent("enter", 0, TRUE)
  /\ UNCHANGED <<mode, nodes, edges, nodePositions, posLog, viewState,
                 lastMousePos, rendered, dragStart>>
  /\ UNCHANGED caller

\* onMouseEnter={() => setHoveredNodeId(node.id)} of the k-th node drawn
NodeEnter(k) ==
  /\ mode # "unmounted"
  /\ k \in 1..Len(nodePositions)
  /\ pending < MaxPending
  /\ hoveredNodeId' = nodePositions[k].id
  /\ pending' = pending + 1
  /\ lastHover' = LogHover("enter", nodePositions[k].id)
  /\ lastEvent' = LogEvent("enter", 0, TRUE)
  /\ UNCHANGED <<mode, nodes, edges, nodePositions, posLog, viewState,
                 isDragging, lastMousePos, rendered, dragStart>>
  /\ UNCHANGED caller

\* mutant of NodeLeave: the hover is cleared only by the hovered node's leave
NodeLeaveIfHovered(k) ==
  /\ mode # "unmounted"
  /\ k \in 1..Len(nodePositions)
  /\ pending < MaxPending
  /\ hoveredNodeId' = IF hoveredNodeId = nodePositions[k].id
                      THEN Null ELSE hoveredNodeId
  /\ pending' = pending + 1
  /\ lastHover' = LogHover("leave", nodePositions[k].id)
  /\ lastEvent' = LogEvent("leave", 0, TRUE)
  /\ UNCHANGED <<mode, nodes, edges, nodePositions, posLog, viewState,
                 isDragging, lastMousePos, rendered, dragStart>>
  /\ UNCHANGED caller

\* onMouseLeave={() => setHoveredNodeId(null)} of the k-th node drawn
NodeLeave(k) ==
  /\ mode # "unmounted"
  /\ k \in 1..Len(nodePositions)
  /\ pending < MaxPending
  /\ hoveredNodeId' = Null
  /\ pending' = pending + 1
  /\ lastHover' = LogHover("leave", nodePositions[k].id)
  /\ lastEvent' = LogEvent("leave", 0, TRUE)
  /\ UNCHANGED <<mode, nodes, edges, nodePositions, posLog, viewState,
                 isDragging, lastMousePos, rendered, dragStart>>
  /\ UNCHANGED caller

\* --------------------------------------------------------------- viewport
\* Math.min(Math.max(0.2, s), 4)
ClampScale(s) ==
  Min(Max(MinScale, s), MaxScale)

\* mutant of WheelScale: the lower clamp is missing
WheelScaleNoFloor(renderedScale, deltaY) ==
  Min(renderedScale + (-deltaY * WheelSensitivity), MaxScale)

\* const delta = -e.deltaY * 0.001;
\* const newScale = Math.min(Math.max(0.2, viewState.scale + delta), 4)
\* with viewState the value the handler's render saw
WheelScale(renderedScale, deltaY) ==
  ClampScale(renderedScale + (-deltaY * WheelSensitivity))

\* prev => ({ ...prev, scale: Math.min(prev.scale + 0.2, 4) })
ZoomInScale(prevScale) ==
  Min(prevScale + ZoomStep, MaxScale)

\* prev => ({ ...prev, scale: Math.max(prev.scale - 0.2, 0.2) })
ZoomOutScale(prevScale) ==
  Max(prevScale - ZoomStep, MinScale)

\* onWheel (continuous)
handleWheel(deltaY) ==
  /\ mode = "full"
  /\ pending < MaxPending
  /\ viewState' = [viewState EXCEPT
                     !.scale = WheelScale(rendered.scale, deltaY),
                     !.float = WheelFloat(rendered.float, deltaY)]
  /\ pending' = pending + 1
  /\ lastEvent' = LogEvent("wheel", deltaY, TRUE)
  /\ UNCHANGED <<mode, nodes, edges, nodePositions, posLog, hoveredNodeId,
                 isDragging, lastMousePos, rendered, dragStart, lastHover>>
  /\ UNCHANGED caller

\* onMouseDown (discrete)
handleMouseDown(p) ==
  /\ mode = "full"
  /\ isDragging' = TRUE
  /\ lastMousePos' = p
  /\ rendered' = Closure(viewState, TRUE)
  /\ pending' = 0
  /\ dragStart' = IF dragStart.on
                  THEN [on |-> TRUE, clean |-> TRUE, pos |-> p,
                        x |-> viewState.x, y |-> viewState.y, moves |-> 0]
                  ELSE dragStart
  /\ lastEvent' = LogEvent("down", 0, p = lastMousePos)
  /\ UNCHANGED <<mode, nodes, edges, nodePositions, posLog, hoveredNodeId,
                 viewState, lastHover>>
  /\ UNCHANGED caller

\* mutant of Pan: dx is added to both coordinates
PanSameDelta(prev, dx, dy) ==
  [prev EXCEPT !.x = prev.x + dx, !.y = prev.y + dx]

\* prev => ({ ...prev, x: prev.x + dx, y: prev.y + dy })
Pan(prev, dx, dy) ==
  [prev EXCEPT !.x = prev.x + dx, !.y = prev.y + dy]

\* onMouseMove (continuous); isDragging is the value its render saw
handleMouseMove(p) ==
  /\ mode = "full"
  /\ IF ~rendered.isDragging
     THEN UNCHANGED vars
     ELSE LET dx == p.x - lastMousePos.x
              dy == p.y - lastMousePos.y
          IN  /\ pending < MaxPending
              /\ Abs(viewState.x + dx) <= MaxOffset
              /\ Abs(viewState.y + dy) <= MaxOffset
              /\ lastMousePos' = p
              /\ viewState' = Pan(viewState, dx, dy)
              /\ pending' = pending + 1
              /\ dragStart' = IF dragStart.on /\ dragStart.clean
                              THEN [dragStart EXCEPT !.moves = Min(@ + 1, 2)]
                              ELSE dragStart
              /\ lastEvent' = LogEvent("move", 0, p = lastMousePos)
              /\ UNCHANGED <<mode, nodes, edges, nodePositions, posLog,
                             hoveredNodeId, isDragging, rendered, lastHover>>
              /\ UNCHANGED caller

\* mutant of handleMouseUp: the handler toggles isDragging
handleMouseUpToggles ==
  /\ mode = "full"
  /\ isDragging' = ~isDragging
  /\ rendered' = Closure(viewState, ~isDragging)
  /\ pending' = 0
  /\ lastEvent' = LogEvent("up", 0, TRUE)
  /\ UNCHANGED <<mode, nodes, edges, nodePositions, posLog, hoveredNodeId,
                 viewState, lastMousePos, dragStart, lastHover>>
  /\ UNCHANGED caller

\* onMouseUp (discrete)
handleMouseUp ==
  /\ mode = "full"
  /\ isDragging' = FALSE
  /\ rendered' = Closure(viewState, FALSE)
  /\ pending' = 0
  /\ lastEvent' = LogEvent("up", 0, TRUE)
  /\ UNCHANGED <<mode, nodes, edges, nodePositions, posLog, hoveredNodeId,
                 viewState, lastMousePos, dragStart, lastHover>>
  /\ UNCHANGED caller

\* onMouseLeave={handleMouseUp} of the svg (continuous)
handleMouseLeave ==
  /\ mode = "full"
  /\ pending < MaxPending
  /\ isDragging' = FALSE
  /\ pending' = pending + 1
  /\ lastEvent' = LogEvent("leaveCanvas", 0, TRUE)
  /\ UNCHANGED <<mode, nodes, edges, nodePositions, posLog, hoveredNodeId,
                 viewState, lastMousePos, rendered, dragStart, lastHover>>
  /\ UNCHANGED caller

\* mutant of resetView: the scale is kept
resetViewKeepsScale ==
  /\ mode = "full"
  /\ viewState' = [x |-> 0, y |-> 0, scale |-> viewState.scale,
                   float |-> viewState.float]
  /\ rendered' = Closure(viewState', isDragging)
  /\ pending' = 0
  /\ dragStart' = NoDrag(dragStart.on)
  /\ lastEvent' = LogEvent("resetView", 0, TRUE)
  /\ UNCHANGED <<mode, nodes, edges, nodePositions, posLog, hoveredNodeId,
                 isDragging, lastMousePos, lastHover>>
  /\ UNCHANGED caller

\* onClick of the reset button (discrete)
resetView ==
  /\ mode = "full"
  /\ viewState' = [x |-> 0, y |-> 0, scale |-> InitialScale,
                   float |-> IF viewState.float = <<>> THEN <<>> ELSE FloatOne]
  /\ rendered' = Closure(viewState', isDragging)
  /\ pending' = 0
  /\ dragStart' = NoDrag(dragStart.on)
  /\ lastEvent' = LogEvent("resetView", 0, TRUE)
  /\ UNCHANGED <<mode, nodes, edges, nodePositions, posLog, hoveredNodeId,
                 isDragging, lastMousePos, lastHover>>
  /\ UNCHANGED caller

\* onClick of the zoom-in button (discrete)
\* mutant of zoomIn: the zoom click also ends a drag
zoomInEndsDrag ==
  /\ mode = "full"
  /\ viewState' = [viewState EXCEPT
                     !.scale = ZoomInScale(viewState.scale),
                     !.float = ZoomInFloat(viewState.float)]
  /\ isDragging' = FALSE
  /\ rendered' = Closure(viewState', FALSE)
  /\ pending' = 0
  /\ lastEvent' = LogEvent("zoomIn", 0, TRUE)
  /\ UNCHANGED <<mode, nodes, edges, nodePositions, posLog, hoveredNodeId,
                 lastMousePos, dragStart, lastHover>>
  /\ UNCHANGED caller

zoomIn ==
  /\ mode = "full"
  /\ viewState' = [viewState EXCEPT
                     !.scale = ZoomInScale(viewState.scale),
                     !.float = ZoomInFloat(viewState.float)]
  /\ rendered' = Closure(viewState', isDragging)
  /\ pending' = 0
  /\ lastEvent' = LogEvent("zoomIn", 0, TRUE)
  /\ UNCHANGED <<mode, nodes, edges, nodePositions, posLog, hoveredNodeId,
                 isDragging, lastMousePos, dragStart, lastHover>>
  /\ UNCHANGED caller

\* onClick of the zoom-out button (discrete)
zoomOut ==
  /\ mode = "full"
  /\ viewState' = [viewState EXCEPT
                     !.scale = ZoomOutScale(viewState.scale),
                     !.float = ZoomOutFloat(viewState.float)]
  /\ rendered' = Closure(viewState', isDragging)
  /\ pending' = 0
  /\ lastEvent' = LogEvent("zoomOut", 0, TRUE)
  /\ UNCHANGED <<mode, nodes, edges, nodePositions, posLog, hoveredNodeId,
                 isDragging, lastMousePos, dragStart, lastHover>>
  /\ UNCHANGED caller

\* --------------------------------------------------------- specifications
\* the layout of every node list of at most MaxNodes nodes, in both
\* components, without edges and with one edge
InitLayout ==
  \E ns \in SeqsUpTo(GraphNode, MaxNodes) :
    \E es \in {<<>>, << Edge("a", "b") >>} : Unmounted(ns, es, {})

NextLayout ==
  \/ MountCompact
  \/ MountFull

SpecLayout ==
  InitLayout /\ [][NextLayout]_vars

\* hover and graph changes over the catalog's node lists under every edge
\* list of at most MaxEdges edges, in both components
InitRender ==
  \E ns \in NodeCatalog : \E es \in SeqsUpTo(GraphEdge, MaxEdges) :
    Unmounted(ns, es, {"hover"})

NextRender ==
  \/ MountCompact
  \/ MountFull
  \/ Rerender
  \/ \E g \in GraphCatalog : NewGraph(g)
  \/ \E k \in DOMAIN nodePositions : NodeEnter(k)
  \/ \E k \in DOMAIN nodePositions : NodeLeave(k)

SpecRender ==
  InitRender /\ [][NextRender]_vars

\* zooming the full-screen view
InitView ==
  Unmounted(ScenarioNodes, << Edge("a", "b"), Edge("b", "c") >>,
            {"drag", "event"})

NextZoom ==
  \/ MountFull
  \/ Rerender
  \/ \E d \in DeltaYs : handleWheel(d)
  \/ resetView
  \/ zoomIn
  \/ zoomOut

SpecZoom ==
  InitView /\ [][NextZoom]_vars

\* panning the full-screen view
NextDrag ==
  \/ MountFull
  \/ Rerender
  \/ \E p \in Points : handleMouseDown(p)
  \/ \E p \in Points : handleMouseMove(p)
  \/ handleMouseUp
  \/ handleMouseLeave
  \/ resetView

SpecDrag ==
  InitView /\ [][NextDrag]_vars

\* hovering and zooming the full-screen view of the catalog's node lists under
\* every edge list of at most MaxEdges edges
InitLod ==
  \E ns \in NodeCatalog : \E es \in SeqsUpTo(GraphEdge, MaxEdges) :
    Unmounted(ns, es, {})

NextLod ==
  \/ MountFull
  \/ Rerender
  \/ \E k \in DOMAIN nodePositions : NodeEnter(k)
  \/ \E k \in DOMAIN nodePositions : NodeLeave(k)
  \/ zoomIn
  \/ zoomOut

SpecLod ==
  InitLod /\ [][NextLod]_vars

\* either component while the caller hands over other graphs and the user
\* hovers, pans, zooms out and resets
InitMemo ==
  \E g \in GraphCatalog : Unmounted(g.nodes, g.edges, {})

NextMemo ==
  \/ MountCompact
  \/ MountFull
  \/ Rerender
  \/ \E g \in GraphCatalog : NewGraph(g)
  \/ \E k \in DOMAIN nodePositions : NodeEnter(k)
  \/ \E k \in DOMAIN nodePositions : NodeLeave(k)
  \/ \E p \in Points : handleMouseDown(p)
  \/ \E p \in Points : handleMouseMove(p)
  \/ handleMouseUp
  \/ resetView
  \/ zoomOut

SpecMemo ==
  InitMemo /\ [][NextMemo]_vars

\* panning and zooming the full-screen view
InitViewport ==
  Unmounted(ScenarioNodes, << Edge("a", "b"), Edge("b", "c") >>, {"event"})

NextViewport ==
  \/ MountFull
  \/ Rerender
  \/ \E d \in DeltaYs : handleWheel(d)
  \/ \E p \in Points : handleMouseDown(p)
  \/ \E p \in Points : handleMouseMove(p)
  \/ handleMouseUp
  \/ handleMouseLeave
  \/ resetView
  \/ zoomIn
  \/ zoomOut

SpecViewport ==
  InitViewport /\ [][NextViewport]_vars

\* hovering the nodes of the catalog's node lists in both components, and
\* panning, zooming and resetting the full-screen view meanwhile
InitTooltip ==
  \E ns \in NodeCatalog : Unmounted(ns, <<>>, {})

NextTooltip ==
  \/ MountCompact
  \/ MountFull
  \/ Rerender
  \/ \E k \in DOMAIN nodePositions : NodeEnter(k)
  \/ \E k \in DOMAIN nodePositions : NodeLeave(k)
  \/ \E d \in {-5000, 5000} : handleWheel(d)
  \/ \E p \in Points : handleMouseDown(p)
  \/ \E p \in Points : handleMouseMove(p)
  \/ handleMouseUp
  \/ resetView
  \/ zoomIn
  \/ zoomOut

SpecTooltip ==
  InitTooltip /\ [][NextTooltip]_vars

\* renders of both components under graph changes, hover and zoom, with the
\* handler that ran last on record
InitScene ==
  \E g \in GraphCatalog : Unmounted(g.nodes, g.edges, {"event"})

NextScene ==
  \/ MountCompact
  \/ MountFull
  \/ Rerender
  \/ \E g \in GraphCatalog : NewGraph(g)
  \/ \E k \in DOMAIN nodePositions : NodeEnter(k)
  \/ \E k \in DOMAIN nodePositions : NodeLeave(k)
  \/ resetView
  \/ zoomIn
  \/ zoomOut

SpecScene ==
  InitScene /\ [][NextScene]_vars

\* every viewport operation of the full-screen view while nodes are hovered;
\* the pointer moves along the diagonal and the wheel turns in big steps
InitFrame ==
  Unmounted(<< Node("a", "entity"), Node("b", "action") >>,
            << Edge("a", "b") >>, {"event"})

NextFrame ==
  \/ MountFull
  \/ Rerender
  \/ \E k \in DOMAIN nodePositions : NodeEnter(k)
  \/ \E k \in DOMAIN nodePositions : NodeLeave(k)
  \/ \E d \in {-5000, 5000} : handleWheel(d)
  \/ \E p \in {Origin, [x |-> 1, y |-> 1]} : handleMouseDown(p)
  \/ \E p \in {Origin, [x |-> 1, y |-> 1]} : handleMouseMove(p)
  \/ handleMouseUp
  \/ resetView
  \/ zoomIn
  \/ zoomOut

SpecFrame ==
  InitFrame /\ [][NextFrame]_vars

\* zooming the full-screen view with the doubles of the scale on record; the
\* wheel turns in big steps
InitZoomFloat ==
  Unmounted(ScenarioNodes, << Edge("a", "b"), Edge("b", "c") >>,
            {"event", "float"})

NextZoomFloat ==
  \/ MountFull
  \/ Rerender
  \/ \E d \in {-5000, 5000} : handleWheel(d)
  \/ resetView
  \/ zoomIn
  \/ zoomOut

SpecZoomFloat ==
  InitZoomFloat /\ [][NextZoomFloat]_vars

\* hovering nodes while panning and zooming out the full-screen view
InitHoverDrag ==
  Unmounted(<< Node("a", "entity"), Node("b", "action") >>,
            << Edge("a", "b") >>, {"event"})

NextHoverDrag ==
  \/ MountFull
  \/ Rerender
  \/ \E k \in DOMAIN nodePositions : NodeEnter(k)
  \/ \E k \in DOMAIN nodePositions : NodeLeave(k)
  \/ \E p \in Points : handleMouseDown(p)
  \/ \E p \in Points : handleMouseMove(p)
  \/ handleMouseUp
  \/ handleMouseLeave
  \/ zoomOut

SpecHoverDrag ==
  InitHoverDrag /\ [][NextHoverDrag]_vars

\* a whole session of either component over the graphs of the catalog
Init ==
  \E g \in GraphCatalog : Unmounted(g.nodes, g.edges, {})

Next ==
  \/ MountCompact
  \/ MountFull
  \/ Rerender
  \/ \E g \in GraphCatalog : NewGraph(g)
  \/ \E k \in DOMAIN nodePositions : NodeEnter(k)
  \/ \E k \in DOMAIN nodePositions : NodeLeave(k)
  \/ \E d \in DeltaYs : handleWheel(d)
  \/ \E p \in Points : handleMouseDown(p)
  \/ \E p \in Points : handleMouseMove(p)
  \/ handleMouseUp
  \/ handleMouseLeave
  \/ resetView
  \/ zoomIn
  \/ zoomOut

Spec ==
  Init /\ [][Next]_vars

\* ------------------------------------------------------------------ claims
Mounted ==
  mode \in {"compact", "full"}

NodeIdsDrawn ==
  {nodePositions[k].id : k \in DOMAIN nodePositions}

\* C1: after every wheel, zoomIn, zoomOut and resetView operation the scale
\* of the full-screen viewport lies in [0.2, 4.0]
ZoomClamp ==
  /\ MinScale <= viewState.scale
  /\ viewState.scale <= MaxScale

\* a wheel event has pushed the scale down onto the lower bound
ZoomClampWitness ==
  /\ mode = "full"
  /\ pending > 0
  /\ viewState.scale = MinScale
  /\ rendered.scale > MinScale

TierOf(type) ==
  CASE type = "entity" -> 0
    [] type = "action" -> 1
    [] OTHER -> 2

\* C2: in both layouts every node is handed to exactly one of the three
\* tiers, the one of its type, so the tier sizes add up to the node count
PartitionComplete ==
  Mounted =>
    /\ Len(posLog) = Len(nodes)
    /\ \A k \in DOMAIN nodes :
         Cardinality({j \in DOMAIN posLog : posLog[j].node = k}) = 1
    /\ \A j \in DOMAIN posLog :
         posLog[j].tier = TierOf(nodes[posLog[j].node].type)
    /\ Len(entities(nodes)) + Len(actions(nodes)) + Len(Tier2(mode, nodes))
         = Len(nodes)

\* a layout of an entity, an outcome and a node of unknown type
PartitionCompleteWitness ==
  /\ Mounted
  /\ Len(nodes) = 3
  /\ {nodes[k].type : k \in DOMAIN nodes} = {"entity", "outcome", "concept"}
  /\ Len(posLog) = 3

\* C3 as stated: a single entity is at the canvas centre whatever the other
\* tiers hold, nodes of the same id included
SingleEntityCentered ==
  (Mounted /\ Len(entities(nodes)) = 1) =>
    nodePositions[entities(nodes)[1]].pos = Center(mode)

\* C3 amended: a single entity whose id no other node carries is at the
\* canvas centre whatever the other tiers hold
SingleEntityCenteredUniqueId ==
  (Mounted /\ Len(entities(nodes)) = 1) =>
    LET e == entities(nodes)[1]
    IN  (\A k \in DOMAIN nodes : k # e => nodes[k].id # nodes[e].id)
          => nodePositions[e].pos = Center(mode)

\* the single entity is listed between two nodes of other tiers and ids
SingleEntityCenteredWitness ==
  /\ mode = "compact"
  /\ Len(nodes) = 3
  /\ nodes[1].type = "risk"
  /\ nodes[2].type = "entity"
  /\ nodes[3].type = "action"
  /\ Cardinality({nodes[k].id : k \in DOMAIN nodes}) = 3
  /\ nodePositions[2].pos = Center(mode)

\* C4: an edge is drawn exactly when both its ends are ids of nodes, and
\* drawing it reads no undefined end
DanglingEdgeSafety ==
  Mounted =>
    \A e \in DOMAIN edges :
      LET known == edges[e].from \in {nodes[k].id : k \in DOMAIN nodes}
                   /\ edges[e].to \in {nodes[k].id : k \in DOMAIN nodes}
      IN  /\ (scene.edges[e] # <<>>) <=> known
          /\ scene.edges[e] # <<>> => ~scene.edges[e][1].threw

\* while a node is hovered, one edge is dropped for its missing end and
\* another is drawn
DanglingEdgeSafetyWitness ==
  /\ Mounted
  /\ hoveredNodeId \in NodeIdsDrawn
  /\ \E e \in DOMAIN edges :
       /\ edges[e].from \in NodeIdsDrawn
       /\ edges[e].to = "zzz"
       /\ scene.edges[e] = <<>>
  /\ \E e \in DOMAIN edges : scene.edges[e] # <<>>

\* C5: within one drag the offset has moved by the last pointer position
\* minus the position of the mouse down, however many moves were made
DragAdditivity ==
  (dragStart.on /\ dragStart.clean) =>
    /\ viewState.x - dragStart.x = lastMousePos.x - dragStart.pos.x
    /\ viewState.y - dragStart.y = lastMousePos.y - dragStart.pos.y

\* a drag of two moves that has left the pointer away from where it began
DragAdditivityWitness ==
  /\ dragStart.on
  /\ dragStart.clean
  /\ isDragging
  /\ dragStart.moves = 2
  /\ lastMousePos.x # dragStart.pos.x
  /\ lastMousePos.y # dragStart.pos.y
  /\ viewState.x # dragStart.x

\* C6: while node N is hovered the edges touching N are fully opaque, the
\* other edges have opacity 0.1 and the other nodes 0.2 (compact) or 0.3
\* (full-screen); with no node hovered everything is fully opaque
HoverDimming ==
  Mounted =>
    /\ hoveredNodeId \in NodeIdsDrawn =>
         /\ \A e \in DOMAIN edges :
              scene.edges[e] # <<>> =>
                scene.edges[e][1].opacity =
                  IF edges[e].from = hoveredNodeId \/ edges[e].to = hoveredNodeId
                  THEN 100 ELSE 10
         /\ \A k \in DOMAIN nodePositions :
              nodePositions[k].id # hoveredNodeId =>
                scene.nodes[k].opacity = IF mode = "compact" THEN 20 ELSE 30
    /\ hoveredNodeId = Null =>
         /\ \A e \in DOMAIN edges :
              scene.edges[e] # <<>> => scene.edges[e][1].opacity = 100
         /\ \A k \in DOMAIN nodePositions : scene.nodes[k].opacity = 100

\* C7 as stated: a leave event of a node other than the hovered one leaves
\* the hover as it was
StaleLeaveIgnored ==
  (lastHover.op = "leave" /\ lastHover.before # Null
     /\ lastHover.before # lastHover.id)
    => hoveredNodeId = lastHover.before

\* C7 amended: every leave event of a drawn node clears the hover, that of a
\* node other than the hovered one too
LeaveAlwaysClears ==
  lastHover.op = "leave" => hoveredNodeId = Null

\* node A was hovered and the leave event of another node B has been handled
LeaveAlwaysClearsWitness ==
  /\ lastHover.op = "leave"
  /\ lastHover.before # Null
  /\ lastHover.before # lastHover.id
  /\ lastHover.before \in NodeIdsDrawn
  /\ hoveredNodeId = Null

\* C8: hoveredNodeId is null or the id of a node of the positioned list,
\* also after the caller has supplied another graph
HoverValid ==
  hoveredNodeId = Null \/ hoveredNodeId \in NodeIdsDrawn

GroupRank(type) ==
  CASE type = "risk" -> 0
    [] type = "outcome" -> 1
    [] OTHER -> 2

\* C9: in both layouts the slots of the outer tier go to the risk nodes,
\* then the outcome nodes, then the others, each group in input order
Tier2RiskOutcomeOther ==
  Mounted =>
    \A j, k \in DOMAIN posLog :
      (posLog[j].tier = 2 /\ posLog[k].tier = 2 /\ posLog[j].i < posLog[k].i) =>
        LET rj == GroupRank(nodes[posLog[j].node].type)
            rk == GroupRank(nodes[posLog[k].node].type)
        IN  rj < rk \/ (rj = rk /\ posLog[j].node < posLog[k].node)

\* angle = phase/10 + i * (2 pi / n) - pi / 2
AngleIs(angle, phase, i, n) ==
  /\ angle.rad = phase
  /\ angle.pi[2] > 0
  /\ angle.pi[1] * (2 * n) = (4 * i - n) * angle.pi[2]

OnRing(pos, m, compactRadius, fullRadiusX, fullRadiusY) ==
  /\ pos.x0 = cx(m)
  /\ pos.y0 = cy(m)
  /\ pos.rx = IF m = "compact" THEN compactRadius ELSE fullRadiusX
  /\ pos.ry = IF m = "compact" THEN compactRadius ELSE fullRadiusY

\* C10: the i-th of n action nodes is placed at 0.5 + i*(2pi/n) - pi/2 on the
\* action radius, the i-th of n outer nodes at 1.0 + i*(2pi/n) - pi/2 on the
\* outer radius, the i-th of n # 1 entities at i*(2pi/n) - pi/2 on the entity
\* radius; scenario A and the two-action scenario come out as stated
TierRadiusAndPhase ==
  Mounted =>
    /\ \A j \in DOMAIN posLog :
         LET w == posLog[j]
             i == Cardinality({h \in 1..(j - 1) : posLog[h].tier = w.tier})
             n == Cardinality({h \in DOMAIN posLog : posLog[h].tier = w.tier})
         IN  /\ w.tier = 1 =>
                  /\ AngleIs(w.pos.angle, 5, i, n)
                  /\ OnRing(w.pos, mode, 90, 220, 160)
             /\ w.tier = 2 =>
                  /\ AngleIs(w.pos.angle, 10, i, n)
                  /\ OnRing(w.pos, mode, 130, 320, 240)
             /\ (w.tier = 0 /\ n # 1) =>
                  /\ AngleIs(w.pos.angle, 0, i, n)
                  /\ OnRing(w.pos, mode, 40, 100, 80)
             /\ (\A h \in DOMAIN posLog : h # j => posLog[h].id # w.id)
                  => nodePositions[w.node].pos = w.pos
    /\ nodes = ScenarioNodes =>
         /\ nodePositions[1].pos = Center(mode)
         /\ nodePositions[2].pos.angle = [rad |-> 5, pi |-> <<-1, 2>>]
         /\ nodePositions[3].pos.angle = [rad |-> 10, pi |-> <<-1, 2>>]
    /\ (Len(nodes) = 2 /\ nodes[1].type = "action" /\ nodes[2].type = "action") =>
         /\ \A j \in DOMAIN posLog : posLog[j].tier # 0
         /\ posLog[1].pos.angle = [rad |-> 5, pi |-> <<-1, 2>>]
         /\ posLog[2].pos.angle = [rad |-> 5, pi |-> <<1, 2>>]

\* scenario A laid out full-screen
TierRadiusAndPhaseWitness ==
  /\ mode = "full"
  /\ nodes = ScenarioNodes
  /\ Len(nodePositions) = 3
  /\ nodePositions[2].pos.rx = 220

\* the writes of one tier, and the slot of a write within its tier
TierWrites(tier) ==
  {j \in DOMAIN posLog : posLog[j].tier = tier}

SlotOf(j) ==
  Cardinality({h \in TierWrites(posLog[j].tier) : h < j})

\* C11: in a tier distributed with n members, the member of index i takes
\* slot i of n: members of consecutive indices are one step of 2pi/n apart,
\* and the n members take n distinct slots of one turn around the centre
AngularSpacing ==
  Mounted =>
    \A j \in DOMAIN posLog :
      LET w == posLog[j]
          n == Cardinality(TierWrites(w.tier))
      IN  /\ w.i = SlotOf(j)
          /\ w.count = n
          /\ \A k \in TierWrites(w.tier) :
               /\ SlotOf(k) = SlotOf(j) + 1 =>
                    /\ posLog[k].pos.angle.rad = w.pos.angle.rad
                    /\ RatSub(posLog[k].pos.angle.pi, w.pos.angle.pi) = Rat(2, n)
                    /\ posLog[k].pos.rx = w.pos.rx
                    /\ posLog[k].pos.ry = w.pos.ry
               /\ SlotOf(k) > SlotOf(j) =>
                    LET d == RatSub(posLog[k].pos.angle.pi, w.pos.angle.pi)
                    IN  /\ d[1] > 0
                        /\ d[1] < 2 * d[2]
          /\ (\A h \in DOMAIN posLog : h # j => posLog[h].id # w.id)
               => nodePositions[w.node].pos = w.pos

\* three action nodes of distinct ids on the full-screen action ring
AngularSpacingWitness ==
  /\ mode = "full"
  /\ Len(nodes) = 3
  /\ \A k \in DOMAIN nodes : nodes[k].type = "action"
  /\ Cardinality({nodes[k].id : k \in DOMAIN nodes}) = 3
  /\ nodePositions[2].pos.angle = [rad |-> 5, pi |-> <<1, 6>>]
  /\ nodePositions[3].pos.angle = [rad |-> 5, pi |-> <<5, 6>>]

LastWriteOf(id) ==
  CHOOSE j \in DOMAIN posLog :
    /\ posLog[j].id = id
    /\ \A h \in DOMAIN posLog : posLog[h].id = id => h <= j

\* C12: with ids shared by several nodes the layout still returns one entry
\* per node, the map is written tier 0, tier 1, tier 2 and in member order
\* within a tier, and every node of an id gets the position written last for
\* that id
DuplicateIdsLastWrite ==
  Mounted =>
    /\ Len(nodePositions) = Len(nodes)
    /\ [j \in DOMAIN posLog |-> posLog[j].node]
         = entities(nodes) \o actions(nodes) \o Tier2(mode, nodes)
    /\ \A j, k \in DOMAIN posLog : j < k => posLog[j].tier <= posLog[k].tier
    /\ \A k \in DOMAIN nodes :
         /\ nodePositions[k].id = nodes[k].id
         /\ nodePositions[k].pos = posLog[LastWriteOf(nodes[k].id)].pos
    /\ \A j, k \in DOMAIN nodes :
         nodes[j].id = nodes[k].id => nodePositions[j].pos = nodePositions[k].pos

\* an entity and a risk node share an id, and a second risk node shares the
\* id of the first: all are drawn where the last of them was placed
DuplicateIdsLastWriteWitness ==
  /\ mode = "compact"
  /\ Len(nodes) = 3
  /\ nodes[1].type = "entity"
  /\ nodes[2].type = "risk"
  /\ nodes[3].type = "risk"
  /\ nodes[1].id = nodes[2].id
  /\ nodes[2].id = nodes[3].id
  /\ posLog[1].pos = Center(mode)
  /\ posLog[2].pos # posLog[3].pos
  /\ \A k \in DOMAIN nodes : nodePositions[k].pos = posLog[3].pos

\* the step is a run of one of the handlers named in ops
EventStep(ops) ==
  /\ lastEvent'.tick # lastEvent.tick
  /\ lastEvent'.op \in ops

\* C13: a node enter or leave event changes none of isDragging, the last
\* pointer position, the offset and the scale, and mouse down, move, up and
\* leaving the canvas do not change hoveredNodeId
HoverDragIndependent ==
  [][ /\ EventStep({"enter", "leave"})
           => UNCHANGED <<isDragging, lastMousePos, viewState>>
      /\ EventStep({"down", "move", "up", "leaveCanvas"})
           => UNCHANGED hoveredNodeId ]_vars

\* a node was entered in the middle of a drag that has moved the zoomed-out
\* view, and the drag is still on
HoverDragIndependentWitness ==
  /\ lastEvent.op = "enter"
  /\ hoveredNodeId = "b"
  /\ isDragging
  /\ rendered.isDragging
  /\ viewState.x # 0
  /\ viewState.scale < InitialScale

\* C14: a mouse move changes the offset only while isDragging holds, that is
\* between a mouse down and the next mouse up or leave of the canvas; after
\* a mouse up or a leave of the canvas isDragging is false
MoveNoOpUnlessDragging ==
  [][ /\ (EventStep({"move"}) /\ ~isDragging) => UNCHANGED viewState
      /\ EventStep({"up", "leaveCanvas"}) => ~isDragging' ]_vars

\* C15: resetView sets the offset to (0, 0) and the scale to 1 whatever the
\* offset and the scale were, during a drag too
ResetViewRestores ==
  [][ EventStep({"resetView"})
        => /\ viewState'.x = 0
           /\ viewState'.y = 0
           /\ viewState'.scale = 1000 ]_vars

\* the view was reset in the middle of a drag
ResetViewRestoresWitness ==
  /\ lastEvent.op = "resetView"
  /\ isDragging
  /\ lastMousePos # Origin
  /\ viewState.x = 0
  /\ viewState.y = 0
  /\ viewState.scale = 1000

\* C16: a wheel event with deltaY sets the scale to
\* clamp(s - deltaY * 0.001, 0.2, 4.0), zoomIn to clamp(s + 0.2, 0.2, 4.0)
\* and zoomOut to clamp(s - 0.2, 0.2, 4.0), s being the scale that all
\* earlier operations have left
WheelFormula ==
  [][ /\ EventStep({"wheel"}) =>
           viewState'.scale
             = Min(Max(200, viewState.scale - lastEvent'.deltaY), 4000)
      /\ EventStep({"zoomIn"}) =>
           viewState'.scale = Min(Max(200, viewState.scale + 200), 4000)
      /\ EventStep({"zoomOut"}) =>
           viewState'.scale = Min(Max(200, viewState.scale - 200), 4000) ]_vars

\* the step runs again the handler that ran last, with the same input
RepeatStep(ops) ==
  /\ EventStep(ops)
  /\ lastEvent'.repeat

\* C17 as stated: running any viewport operation a second time with the same
\* input leaves the viewport as the first run left it
ViewportIdempotent ==
  [][ RepeatStep({"wheel", "down", "move", "up", "leaveCanvas", "zoomIn",
                  "zoomOut", "resetView"})
        => UNCHANGED <<viewState, isDragging, lastMousePos>> ]_vars

\* C17 amended: mouse down, mouse move, mouse up, leaving the canvas and
\* resetView are idempotent; zoomIn and zoomOut are not: a second run moves
\* the scale by another 0.2 unless it is at the bound already
ViewportIdempotentExceptZoom ==
  [][ /\ RepeatStep({"down", "move", "up", "leaveCanvas", "resetView"})
           => UNCHANGED <<viewState, isDragging, lastMousePos>>
      /\ RepeatStep({"zoomIn"}) =>
           /\ viewState'.scale = Min(viewState.scale + 200, 4000)
           /\ viewState.scale < 4000 => viewState'.scale > viewState.scale
      /\ RepeatStep({"zoomOut"}) =>
           /\ viewState'.scale = Max(viewState.scale - 200, 200)
           /\ viewState.scale > 200 => viewState'.scale < viewState.scale ]_vars

\* the zoom-out button was pressed twice in a row, in the middle of a drag
\* that has moved the view, and the scale is two steps down
ViewportIdempotentExceptZoomWitness ==
  /\ lastEvent.op = "zoomOut"
  /\ lastEvent.repeat
  /\ viewState.scale = 600
  /\ isDragging
  /\ viewState.x # 0

\* C18: full-screen, the label of an edge is in the scene exactly when the
\* scale is above 0.6, the edge is drawn and no node is hovered or the edge
\* touches the hovered node; the label of a node exactly when the scale is
\* above 0.4
LodGating ==
  mode = "full" =>
    /\ \A e \in DOMAIN edges :
         LET drawn == scene.edges[e] # <<>>
             notDimmed == \/ hoveredNodeId = Null
                          \/ edges[e].from = hoveredNodeId
                          \/ edges[e].to = hoveredNodeId
         IN  (drawn /\ scene.edges[e][1].label # <<>>)
               <=> (viewState.scale > 600 /\ drawn /\ notDimmed)
    /\ \A k \in DOMAIN nodePositions :
         scene.nodes[k].label # <<>> <=> viewState.scale > 400

\* C19: the layout is computed at the first render and after that exactly
\* in the steps in which the caller hands over another nodes array, and the
\* positions drawn are always the layout of the current node list: a step
\* that changes the node list or the positions leaves the positions equal
\* to the layout of the new node list
LayoutMemoized ==
  [][ /\ layoutRuns' # layoutRuns
           <=> (mode = "unmounted" \/ nodesRef' # nodesRef)
      /\ layoutRuns' # layoutRuns => layoutRuns' = layoutRuns + 1
      /\ (mode' # mode \/ nodes' # nodes \/ nodePositions' # nodePositions)
           => nodePositions' = NodePositions(mode', nodes') ]_vars

\* a second array of the scenario's nodes was handed over while node c was
\* hovered in a panned and zoomed-out view: the layout has run twice
LayoutMemoizedWitness ==
  /\ mode = "full"
  /\ nodesRef = 2
  /\ layoutRuns = 2
  /\ hoveredNodeId = "c"
  /\ viewState.x # 0
  /\ viewState.scale < InitialScale

\* C20: the positions are those of the layout of the node list alone,
\* whatever the edge list, the hover and the viewport are, and the node list
\* and the edge list are still as the caller handed them over
LayoutOnlyOfNodes ==
  Mounted =>
    /\ nodes = supplied.nodes
    /\ edges = supplied.edges
    /\ nodePositions = NodePositions(mode, supplied.nodes)
    /\ \A k \in DOMAIN nodes :
         /\ nodePositions[k].id = supplied.nodes[k].id
         /\ nodePositions[k].label = supplied.nodes[k].label
         /\ nodePositions[k].type = supplied.nodes[k].type

\* the scenario's nodes with the dangling edge list, a node hovered, the
\* view panned and zoomed out
LayoutOnlyOfNodesWitness ==
  /\ mode = "full"
  /\ nodes = ScenarioNodes
  /\ edges = << Edge("a", "zzz") >>
  /\ hoveredNodeId = "b"
  /\ viewState.y # 0
  /\ viewState.scale = MinScale
  /\ Len(nodePositions) = 3

\* C21: the layout of every node list completes: it returns one entry per
\* node, no step is computed for an empty list (no division by zero), every
\* node's id has been set in the position map, so the fallback to (cx, cy)
\* is not taken, and an empty node list gives a scene without nodes, edges
\* and tooltip
LayoutTotal ==
  Mounted =>
    /\ Len(nodePositions) = Len(nodes)
    /\ \A j \in DOMAIN posLog :
         /\ posLog[j].count >= 1
         /\ posLog[j].pos.angle.pi[2] > 0
    /\ \A k \in DOMAIN nodes :
         /\ PosMapGet(posLog, nodes[k].id) # <<>>
         /\ nodePositions[k].pos = PosMapGet(posLog, nodes[k].id)[1]
         /\ \E j \in DOMAIN posLog : posLog[j].node = k
    /\ nodes = <<>> =>
         /\ posLog = <<>>
         /\ scene.nodes = <<>>
         /\ \A e \in DOMAIN edges : scene.edges[e] = <<>>
         /\ scene.tooltip = <<>>

\* a list without entity and action nodes, with a node of unknown type, laid
\* out under an edge list that names none of its ids
LayoutTotalWitness ==
  /\ mode = "full"
  /\ edges # <<>>
  /\ Len(nodes) = 2
  /\ nodes[1].type = "concept"
  /\ nodes[2].type = "risk"
  /\ nodes[1].id = "c"
  /\ nodes[2].id = "c"
  /\ Len(posLog) = 2
  /\ nodePositions[1].pos.rx = FullResultRadiusX

\* C22: a node of a type other than entity, action, risk and outcome is drawn
\* in the default colour of its component, the four known types in their
\* fixed colours; it is placed in the outer tier after every risk and outcome
\* node and is drawn at its position like every other node
UnknownCategory ==
  Mounted =>
    \A k \in DOMAIN nodes :
      LET type == nodes[k].type
          unknown == type \notin {"entity", "action", "risk", "outcome"}
      IN  /\ scene.nodes[k].stroke =
               (CASE type = "risk" -> "#ef4444"
                  [] type = "outcome" -> "#f59e0b"
                  [] type = "action" -> "#10b981"
                  [] type = "entity" -> "#06b6d4"
                  [] OTHER -> IF mode = "compact" THEN "#94a3b8" ELSE "#64748b")
          /\ scene.nodes[k].id = nodes[k].id
          /\ scene.nodes[k].pos = nodePositions[k].pos
          /\ scene.nodes[k].opacity = 100
          /\ unknown =>
               \E j \in DOMAIN posLog :
                 /\ posLog[j].node = k
                 /\ posLog[j].tier = 2
                 /\ \A h \in DOMAIN posLog :
                      nodes[posLog[h].node].type \in {"risk", "outcome"}
                        => /\ posLog[h].tier = 2
                           /\ SlotOf(h) < SlotOf(j)

\* a node of unknown type listed before an outcome and a risk node takes the
\* last slot of the compact outer ring, in the default colour
UnknownCategoryWitness ==
  /\ mode = "compact"
  /\ Len(nodes) = 3
  /\ nodes[1].type = "concept"
  /\ nodes[2].type = "outcome"
  /\ nodes[3].type = "risk"
  /\ Cardinality({nodes[k].id : k \in DOMAIN nodes}) = 3
  /\ scene.nodes[1].stroke = "#94a3b8"
  /\ nodePositions[1].pos.angle = [rad |-> 10, pi |-> <<5, 6>>]

\* C23 (as stated): in every reachable state the tooltip is present exactly
\* when hoveredNodeId is the id of a positioned node, it shows the label and
\* the category of a node of that id, and in the full-screen view it sits at
\* one place with one size whatever the offset and scale are
TooltipOverlay ==
  Mounted =>
    /\ (scene.tooltip # <<>>) <=> (hoveredNodeId \in NodeIdsDrawn)
    /\ scene.tooltip # <<>> =>
         \E k \in DOMAIN nodePositions :
           /\ nodePositions[k].id = hoveredNodeId
           /\ scene.tooltip[1].label = nodePositions[k].label
           /\ scene.tooltip[1].type = <<nodePositions[k].type>>
    /\ (mode = "full" /\ scene.tooltip # <<>>) =>
         /\ scene.tooltip[1].anchor = <<>>
         /\ scene.tooltip[1].x = 20 /\ scene.tooltip[1].y = 20
         /\ scene.tooltip[1].width = 220 /\ scene.tooltip[1].height = 90

\* the first node of the list handed over that has the hovered id
FirstWithId(id) ==
  CHOOSE k \in DOMAIN nodes :
    /\ nodes[k].id = id
    /\ \A j \in DOMAIN nodes : nodes[j].id = id => k <= j

\* C23 (amended): the tooltip is present exactly when hoveredNodeId is the id
\* of a positioned node and it is about the first node of that id. The
\* full-screen tooltip shows that node's label and category at (20, 20) with
\* size 220 x 90 whatever the offset and scale are; the compact tooltip shows
\* no category text, only the label, cut to fourteen characters and two dots
\* when it is longer than fifteen, and sits 20 above the node's position
TooltipOverlayByMode ==
  Mounted =>
    /\ (scene.tooltip # <<>>) <=> (hoveredNodeId \in NodeIdsDrawn)
    /\ scene.tooltip # <<>> =>
         LET n == nodes[FirstWithId(hoveredNodeId)]
             t == scene.tooltip[1]
         IN  /\ t.stroke = scene.nodes[FirstWithId(hoveredNodeId)].stroke
             /\ mode = "full" =>
                  /\ t.label = n.label
                  /\ t.type = <<n.type>>
                  /\ t.anchor = <<>>
                  /\ t.x = 20 /\ t.y = 20
                  /\ t.width = 220 /\ t.height = 90
             /\ mode = "compact" =>
                  /\ t.type = <<>>
                  /\ Len(n.label) <= 15 => t.label = n.label
                  /\ Len(n.label) > 15 =>
                       /\ Len(t.label) = 16
                       /\ SubSeq(t.label, 1, 14) = SubSeq(n.label, 1, 14)
                       /\ SubSeq(t.label, 15, 16) = ".."
                  /\ t.anchor
                       = <<nodePositions[FirstWithId(hoveredNodeId)].pos>>
                  /\ t.x = 0 /\ t.y = -20
                  /\ t.width = 100 /\ t.height = 30

\* the full-screen view zoomed to the upper bound and panned away from the
\* origin while the second node of a duplicated id is under the pointer
TooltipOverlayByModeWitness ==
  /\ mode = "full"
  /\ Len(nodes) = 3
  /\ nodes[1].id = nodes[2].id
  /\ hoveredNodeId = nodes[2].id
  /\ viewState.scale = MaxScale
  /\ viewState.x # 0
  /\ scene.tooltip # <<>>
  /\ scene.tooltip[1].type = <<"entity">>

\* C24: for every node list the compact and the full-screen layout run make
\* the same writes up to centre and radii: every node gets the same tier,
\* the same index within its tier and the same angle in both
SameAlgorithm ==
  Mounted =>
    LET other == PosWrites(IF mode = "compact" THEN "full" ELSE "compact",
                           nodes)
    IN  /\ Len(other) = Len(posLog)
        /\ \A j \in DOMAIN posLog :
             \E o \in DOMAIN other :
               /\ other[o].node = posLog[j].node
               /\ other[o].tier = posLog[j].tier
               /\ other[o].i = posLog[j].i
               /\ other[o].count = posLog[j].count
               /\ other[o].pos.angle = posLog[j].pos.angle

\* a step in which the component is rendered and no handler runs: the
\* scheduled re-render, or a render by the caller with props of equal content
RenderOnlyStep ==
  /\ Mounted
  /\ mode' = mode
  /\ lastEvent.on
  /\ lastEvent' = lastEvent
  /\ supplied' = supplied

\* C25: the scene is the render of the layout of the current node list, the
\* edge list, the hover and the viewport state, whatever events led there
\* (how often the layout ran, which array object holds the nodes, and what
\* the handlers' closures hold do not enter); a render changes no state
RenderDeterministic ==
  /\ [](Mounted =>
          scene = Render(mode, NodePositions(mode, nodes), edges,
                         hoveredNodeId, viewState))
  /\ [][RenderOnlyStep =>
          /\ UNCHANGED <<nodes, edges, nodePositions, posLog, hoveredNodeId,
                         viewState, isDragging, lastMousePos>>
          /\ scene' = scene]_vars

\* the second array of equal content was laid out anew while a node is
\* hovered and the view is zoomed out, and the hover's re-render is done
RenderDeterministicWitness ==
  /\ mode = "full"
  /\ nodesRef = 2
  /\ layoutRuns = 3
  /\ hoveredNodeId = "b"
  /\ viewState.scale = 600
  /\ pending = 0
  /\ lastEvent.op = "enter"
  /\ scene.tooltip # <<>>

\* C26: a wheel event or a zoom click that is handled while an earlier
\* update has not been rendered yet (pending > 0) still starts from the scale
\* that update left: no update of the scale is lost, with or without a
\* re-render between two events
NoLostZoomUpdate ==
  [][ (pending > 0 /\ EventStep({"wheel", "zoomIn", "zoomOut"})) =>
        LET delta == CASE lastEvent'.op = "wheel" -> 0 - lastEvent'.deltaY
                       [] lastEvent'.op = "zoomIn" -> 200
                       [] lastEvent'.op = "zoomOut" -> 0 - 200
        IN  viewState'.scale = Min(Max(200, viewState.scale + delta), 4000)
    ]_vars

\* C27: wheel, zoomIn and zoomOut change neither the offset nor isDragging
\* nor the last pointer position; a pointer move never changes the scale;
\* pointer down and pointer up change neither offset nor scale; resetView
\* changes neither isDragging nor hoveredNodeId
ViewportFrame ==
  [][ /\ EventStep({"wheel", "zoomIn", "zoomOut"}) =>
           /\ viewState'.x = viewState.x
           /\ viewState'.y = viewState.y
           /\ isDragging' = isDragging
           /\ lastMousePos' = lastMousePos
      /\ EventStep({"move"}) => viewState'.scale = viewState.scale
      /\ EventStep({"down", "up"}) => viewState' = viewState
      /\ EventStep({"resetView"}) =>
           /\ isDragging' = isDragging
           /\ hoveredNodeId' = hoveredNodeId ]_vars

\* a zoom-in click in the middle of a drag of a panned view, a node hovered
ViewportFrameWitness ==
  /\ lastEvent.op = "zoomIn"
  /\ isDragging
  /\ lastMousePos # Origin
  /\ viewState.x # 0
  /\ viewState.scale = 1200
  /\ hoveredNodeId = "b"

\* C28: the first pointer move after a pointer down at p changes the offset
\* by exactly (pos - p), every later move of the drag by (pos - previous
\* pos), and outside a drag no pointer event changes the offset: after any
\* number of complete drags the offset is the sum over the drags of (last
\* position - down position)
NoJumpAtDragStart ==
  [][ /\ (dragStart.on /\ lastEvent.op = "down" /\ EventStep({"move"})) =>
           /\ viewState'.x - viewState.x = lastMousePos'.x - dragStart.pos.x
           /\ viewState'.y - viewState.y = lastMousePos'.y - dragStart.pos.y
      /\ EventStep({"move"}) =>
           /\ viewState'.x - viewState.x = lastMousePos'.x - lastMousePos.x
           /\ viewState'.y - viewState.y = lastMousePos'.y - lastMousePos.y
      /\ (~isDragging /\ EventStep({"down", "move", "up", "leaveCanvas"})) =>
           /\ viewState'.x = viewState.x
           /\ viewState'.y = viewState.y ]_vars

\* two angles that differ by a whole number of turns; the parts in radians
\* are rational, so they must be equal when the angles are
AngleCongruent(a, b) ==
  /\ a.rad = b.rad
  /\ LET d == RatSub(a.pi, b.pi)
     IN  d[2] = 1 /\ d[1] % 2 = 0

\* whether two placements can be the same point of the canvas: on one ring,
\* when their angles are congruent; on two rings, unless one ring lies
\* strictly inside the other
MayCoincide(p, q) ==
  /\ p.x0 = q.x0
  /\ p.y0 = q.y0
  /\ IF p.rx = q.rx /\ p.ry = q.ry
     THEN (p.rx = 0 /\ p.ry = 0) \/ AngleCongruent(p.angle, q.angle)
     ELSE ~ \/ (p.rx < q.rx /\ p.ry < q.ry)
            \/ (q.rx < p.rx /\ q.ry < p.ry)

\* C29: when the ids of the node list are pairwise distinct, no two nodes
\* have the same tier and index within the tier, no two nodes are placed at
\* the same point, and a single entity is the only node at the centre
LayoutInjective ==
  (Mounted /\ Cardinality({nodes[k].id : k \in DOMAIN nodes}) = Len(nodes)) =>
    /\ \A j, k \in DOMAIN posLog :
         j # k => <<posLog[j].tier, posLog[j].i>> # <<posLog[k].tier, posLog[k].i>>
    /\ \A j, k \in DOMAIN nodePositions :
         j # k => ~MayCoincide(nodePositions[j].pos, nodePositions[k].pos)
    /\ Len(entities(nodes)) = 1 =>
         \A k \in DOMAIN nodePositions :
           (nodePositions[k].pos.rx = 0 /\ nodePositions[k].pos.ry = 0)
             <=> k = entities(nodes)[1]

\* three risk nodes of distinct ids on the outer ring of the compact view
LayoutInjectiveWitness ==
  /\ mode = "compact"
  /\ Len(nodes) = 3
  /\ \A k \in DOMAIN nodes : nodes[k].type = "risk"
  /\ Cardinality({nodes[k].id : k \in DOMAIN nodes}) = 3
  /\ nodePositions[3].pos.angle = [rad |-> 10, pi |-> <<5, 6>>]
  /\ nodePositions[3].pos.rx = 130

\* C30: from every reachable scale s with s + 0.2 <= 4, zoomIn and then
\* zoomOut give s again; from every s with s - 0.2 >= 0.2, zoomOut and then
\* zoomIn give s again; zoomIn at 4 and zoomOut at 0.2 leave the scale as it
\* is. The scale is the double the component holds
ZoomRoundTrip ==
  (Mounted /\ viewState.float # <<>>) =>
    LET s == viewState.float
    IN  /\ FloatLeq(FloatAdd(s, FloatPointTwo), FloatFour) =>
             ZoomOutFloat(ZoomInFloat(s)) = s
        /\ (FloatLeq(FloatPointTwo, s)
              /\ FloatLeq(FloatPointTwo, FloatSub(s, FloatPointTwo))) =>
             ZoomInFloat(ZoomOutFloat(s)) = s
        /\ s = FloatFour => ZoomInFloat(s) = s
        /\ s = FloatPointTwo => ZoomOutFloat(s) = s

====
